---- MODULE Spec2Model ----
(***************************************************************************)
(* Model of local-console-ui/ui-tests/tools/samples/wasm/dummy_module.c:   *)
(*                                                                         *)
(*     int main() {                                                        *)
(*         printf("Hello, World\n");                                       *)
(*     }                                                                   *)
(*                                                                         *)
(* The process is modelled together with the part of the C library the     *)
(* two lines rely on: printf formats into the buffer of stdout, a          *)
(* line-buffered stream is flushed when the data holds a newline, reaching *)
(* the closing brace of main returns 0 and calls exit, and exit flushes    *)
(* what is still buffered.  The host decides what the program cannot:      *)
(* its arguments, environment and standard input, whether stdout is line   *)
(* buffered (a terminal) or fully buffered (a pipe or a file), and how     *)
(* many bytes stdout accepts before a write to it fails.                   *)
(***************************************************************************)
EXTENDS Integers, Sequences, FiniteSets, TLC

VARIABLES
    pc,         \* position of the process: "main", "printf_flush", "end_main", "exit_flush", "exited"
    argv,       \* command-line arguments handed to the process
    environ,    \* environment handed to the process
    stdin,      \* bytes waiting on standard input
    stderr,     \* bytes on the standard error stream
    lbf,        \* TRUE: stdout is line buffered; FALSE: fully buffered
    room0,      \* bytes stdout accepts in this run before a write fails
    room,       \* bytes stdout still accepts
    buf,        \* stdio buffer of stdout
    flushN,     \* number of leading bytes of buf a flush in progress must still write
    out,        \* bytes that have reached standard output in this run
    ferr,       \* error indicator of the stdout stream
    ret,        \* <<>> until printf returns, then <<its return value>>
    mainRet,    \* <<>> until main returns, then <<its return value>>
    exitStatus, \* <<>> until the process has exited, then <<its exit status>>
    seen        \* <<>> or <<r>>, r the record of one earlier run of the program

vars == <<pc, argv, environ, stdin, stderr, lbf, room0, room, buf, flushN,
          out, ferr, ret, mainRet, exitStatus, seen>>

\* stdout accepts 0..MaxRoom bytes; the greeting needs 13, so MaxRoom exceeds it.
MaxRoom == 14

Min(a, b) == IF a < b THEN a ELSE b

\* The host's choices of (argv, environ, stdin), as byte sequences.
Inputs ==
    { [argv |-> << <<97>> >>,           environ |-> {},         stdin |-> <<>>],
      [argv |-> << <<97>>, <<45, 120>> >>, environ |-> {},      stdin |-> <<>>],
      [argv |-> << <<97>> >>,           environ |-> {<<88, 61, 49>>}, stdin |-> <<>>],
      [argv |-> << <<97>> >>,           environ |-> {},         stdin |-> <<113, 10>>] }

----------------------------------------------------------------------------
\* Variant of FormatSrc: the literal written without its "\n".
FormatSrcNoNewline ==
    <<"H", "e", "l", "l", "o", ",", " ", "W", "o", "r", "l", "d">>

\* The string literal of line 13 as it is spelled in the source, one
\* source character per element (the last two are a backslash and an n).

FormatSrc ==
    <<"H", "e", "l", "l", "o", ",", " ", "W", "o", "r", "l", "d", "\\", "n">>

\* Execution character set: the code of a source character.
AsciiOf(c) ==
    CASE c = "H" -> 72  [] c = "e" -> 101 [] c = "l" -> 108 [] c = "o" -> 111
      [] c = "," -> 44  [] c = " " -> 32  [] c = "W" -> 87  [] c = "r" -> 114
      [] c = "d" -> 100 [] c = "n" -> 110 [] c = "\\" -> 92 [] c = "%" -> 37

\* Translation of a string literal: an escape sequence becomes one byte.
RECURSIVE CLiteral(_)
CLiteral(src) ==
    IF src = <<>> THEN <<>>
    ELSE IF Head(src) = "\\" /\ Len(src) >= 2
         THEN (IF src[2] = "n" THEN <<10>> ELSE <<AsciiOf(src[2])>>)
              \o CLiteral(Tail(Tail(src)))
         ELSE <<AsciiOf(Head(src))>> \o CLiteral(Tail(src))

\* printf's formatting of a format that is given no arguments: ordinary
\* bytes are copied, "%%" yields one '%'.
RECURSIVE VFormat(_)
VFormat(fmt) ==
    IF fmt = <<>> THEN <<>>
    ELSE IF Head(fmt) = 37 /\ Len(fmt) >= 2 /\ fmt[2] = 37
         THEN <<37>> \o VFormat(Tail(Tail(fmt)))
         ELSE <<Head(fmt)>> \o VFormat(Tail(fmt))

\* Index of the last newline of s, 0 when it has none.
RECURSIVE LastNewline(_)
LastNewline(s) ==
    IF s = <<>> THEN 0
    ELSE IF s[Len(s)] = 10 THEN Len(s)
    ELSE LastNewline(SubSeq(s, 1, Len(s) - 1))

----------------------------------------------------------------------------
\* A fresh process at the entry of main, given the host's choices.
Start(inp, l, r) ==
    /\ pc' = "main"
    /\ argv' = inp.argv
    /\ environ' = inp.environ
    /\ stdin' = inp.stdin
    /\ stderr' = <<>>
    /\ lbf' = l
    /\ room0' = r
    /\ room' = r
    /\ buf' = <<>>
    /\ flushN' = 0
    /\ out' = <<>>
    /\ ferr' = FALSE
    /\ ret' = <<>>
    /\ mainRet' = <<>>
    /\ exitStatus' = <<>>

Init ==
    /\ pc = "main"
    /\ \E inp \in Inputs :
          /\ argv = inp.argv
          /\ environ = inp.environ
          /\ stdin = inp.stdin
    /\ stderr = <<>>
    /\ lbf \in BOOLEAN
    /\ room0 \in 0..MaxRoom
    /\ room = room0
    /\ buf = <<>>
    /\ flushN = 0
    /\ out = <<>>
    /\ ferr = FALSE
    /\ ret = <<>>
    /\ mainRet = <<>>
    /\ exitStatus = <<>>
    /\ seen = <<>>

\* Variant of Printf: printf("Hello, %s\n", <last argument>).
PrintfArgv ==
    /\ pc = "main"
    /\ buf' = buf \o SubSeq(VFormat(CLiteral(FormatSrc)), 1, 7) \o argv[Len(argv)] \o <<10>>
    /\ flushN' = IF lbf THEN LastNewline(buf') ELSE 0
    /\ pc' = "printf_flush"
    /\ UNCHANGED <<argv, environ, stdin, stderr, lbf, room0, room, out, ferr,
                   ret, mainRet, exitStatus, seen>>

\* Line 13, the call: the formatted bytes go to the buffer of stdout; a
\* line-buffered stream must write through the last newline before printf
\* returns.
Printf ==
    /\ pc = "main"
    /\ buf' = buf \o VFormat(CLiteral(FormatSrc))
    /\ flushN' = IF lbf THEN LastNewline(buf') ELSE 0
    /\ pc' = "printf_flush"
    /\ UNCHANGED <<argv, environ, stdin, stderr, lbf, room0, room, out, ferr,
                   ret, mainRet, exitStatus, seen>>

\* One write to file descriptor 1 on behalf of a flush.  The descriptor
\* takes what it has room for (a short write when that is less than asked);
\* with no room the write fails, the error indicator is set and the buffer
\* is dropped.
Write ==
    /\ pc \in {"printf_flush", "exit_flush"}
    /\ flushN > 0
    /\ \/ /\ room = 0
          /\ ferr' = TRUE
          /\ buf' = <<>>
          /\ flushN' = 0
          /\ UNCHANGED <<out, room>>
       \/ /\ room > 0
          /\ LET n == Min(flushN, room) IN
                /\ out' = out \o SubSeq(buf, 1, n)
                /\ buf' = SubSeq(buf, n + 1, Len(buf))
                /\ flushN' = flushN - n
                /\ room' = room - n
          /\ UNCHANGED ferr
    /\ UNCHANGED <<pc, argv, environ, stdin, stderr, lbf, room0, ret, mainRet,
                   exitStatus, seen>>

\* Variant of PrintfReturn: if (printf(...) < 0) abort();
PrintfReturnAbort ==
    /\ pc = "printf_flush"
    /\ flushN = 0
    /\ ret' = IF ferr THEN <<-1>> ELSE <<Len(VFormat(CLiteral(FormatSrc)))>>
    /\ IF ferr
       THEN pc' = "exited" /\ exitStatus' = <<134>>
       ELSE pc' = "end_main" /\ UNCHANGED exitStatus
    /\ UNCHANGED <<argv, environ, stdin, stderr, lbf, room0, room, buf, flushN,
                   out, ferr, mainRet, seen>>

\* Line 13, the return of printf: the number of bytes transmitted, or a
\* negative value after an output error.  main does not use the value.
PrintfReturn ==
    /\ pc = "printf_flush"
    /\ flushN = 0
    /\ ret' = IF ferr THEN <<-1>> ELSE <<Len(VFormat(CLiteral(FormatSrc)))>>
    /\ pc' = "end_main"
    /\ UNCHANGED <<argv, environ, stdin, stderr, lbf, room0, room, buf, flushN,
                   out, ferr, mainRet, exitStatus, seen>>

\* Variant of MainReturnValue: the end of main yields what the last call
\* left behind, the value printf returned.
MainReturnGarbage == ret[1]

\* Line 14: reaching the closing brace of main returns 0.

MainReturnValue == 0

\* Variant of ReturnFromMain: main ends in for (;;); and never returns.
ReturnSpin ==
    /\ pc = "end_main"
    /\ UNCHANGED vars

\* Variant of ReturnFromMain: return printf(...) < 0;
ReturnPrintfFailed ==
    /\ pc = "end_main"
    /\ mainRet' = <<IF ret[1] < 0 THEN 1 ELSE MainReturnValue>>
    /\ flushN' = Len(buf)
    /\ pc' = "exit_flush"
    /\ UNCHANGED <<argv, environ, stdin, stderr, lbf, room0, room, buf, out,
                   ferr, ret, exitStatus, seen>>

\* Variant of ReturnFromMain: the process ends by _Exit, which flushes
\* no stream.
ReturnNoFlush ==
    /\ pc = "end_main"
    /\ mainRet' = <<MainReturnValue>>
    /\ flushN' = 0
    /\ pc' = "exit_flush"
    /\ UNCHANGED <<argv, environ, stdin, stderr, lbf, room0, room, buf, out,
                   ferr, ret, exitStatus, seen>>

\* Line 14: the return from main is a call of exit with the returned value,
\* and exit flushes stdout.
ReturnFromMain ==
    /\ pc = "end_main"
    /\ mainRet' = <<MainReturnValue>>
    /\ flushN' = Len(buf)
    /\ pc' = "exit_flush"
    /\ UNCHANGED <<argv, environ, stdin, stderr, lbf, room0, room, buf, out,
                   ferr, ret, exitStatus, seen>>

\* exit, after the flush: the process ends with the status main returned,
\* whatever became of the writes.
Exit ==
    /\ pc = "exit_flush"
    /\ flushN = 0
    /\ exitStatus' = mainRet
    /\ pc' = "exited"
    /\ UNCHANGED <<argv, environ, stdin, stderr, lbf, room0, room, buf, flushN,
                   out, ferr, ret, mainRet, seen>>

\* What an observer records of a finished run.
RunRecord ==
    [argv |-> argv, environ |-> environ, stdin |-> stdin, room0 |-> room0,
     out |-> out, ret |-> ret, ferr |-> ferr, status |-> exitStatus]

\* Variant of Rerun: the streams of the finished run are carried into the
\* next one.
RerunAppend ==
    /\ pc = "exited"
    /\ seen' \in {seen, <<RunRecord>>}
    /\ \E inp \in Inputs, l \in BOOLEAN, r \in 0..MaxRoom :
          /\ pc' = "main"
          /\ argv' = inp.argv
          /\ environ' = inp.environ
          /\ stdin' = inp.stdin
          /\ lbf' = l
          /\ room0' = r
          /\ room' = r
          /\ UNCHANGED <<stderr, buf, flushN, out, ferr>>
          /\ ret' = <<>>
          /\ mainRet' = <<>>
          /\ exitStatus' = <<>>

\* The program is run again: a new process, which starts at main with
\* nothing of the finished one.  The observer keeps the record of one of
\* the runs so far.
Rerun ==
    /\ pc = "exited"
    /\ seen' \in {seen, <<RunRecord>>}
    /\ \E inp \in Inputs, l \in BOOLEAN, r \in 0..MaxRoom : Start(inp, l, r)

\* The steps of one process.
Step == Printf \/ Write \/ PrintfReturn \/ ReturnFromMain \/ Exit

Next ==
    \/ Printf
    \/ Write
    \/ PrintfReturn
    \/ ReturnFromMain
    \/ Exit
    \/ Rerun

Spec == Init /\ [][Next]_vars

\* The runs as the host schedules them: a started process is scheduled until
\* it has exited; nothing obliges the host to run the program again.  No
\* step of a process reads the observer's record, which is left out here.
RunAgain == Rerun /\ seen' = seen

FairNext ==
    \/ Printf
    \/ Write
    \/ PrintfReturn
    \/ ReturnFromMain
    \/ Exit
    \/ RunAgain

FairSpec == Init /\ [][FairNext]_vars /\ WF_vars(Step)

----------------------------------------------------------------------------
\* The 13 bytes of the greeting, "Hello, World" and a line feed.
HelloWorldBytes == <<72, 101, 108, 108, 111, 44, 32, 87, 111, 114, 108, 100, 10>>

\* The part of the greeting a stdout with room for n bytes takes.
Accepted(n) == SubSeq(HelloWorldBytes, 1, Min(n, Len(HelloWorldBytes)))

IsPrefix(s, t) == Len(s) <= Len(t) /\ s = SubSeq(t, 1, Len(s))

\* C1 as stated: when the process has terminated, standard output holds
\* exactly the 13 bytes "Hello, World\n", in every run.
C1_ExactGreetingEveryRun ==
    pc = "exited" => out = HelloWorldBytes

\* C1 amended: standard output never holds anything but a leading part of
\* "Hello, World\n"; when the process has terminated it holds the part that
\* stdout accepted, which is the whole greeting, once, in every run whose
\* stdout accepts 13 bytes.
C1_GreetingAsFarAsAccepted ==
    /\ IsPrefix(out, HelloWorldBytes)
    /\ pc = "exited" => out = Accepted(room0)
    /\ pc = "exited" /\ room0 >= 13 => out = HelloWorldBytes

C1_Witness ==
    pc = "exited" /\ room0 >= 13 /\ Len(out) = 13 /\ out[13] = 10

\* C2: in every terminated state the exit status is 0, the value the end
\* of main yields.
C2_ExitStatusZero ==
    pc = "exited" => exitStatus = <<0>> /\ mainRet = <<0>>

C2_Witness ==
    pc = "exited" /\ exitStatus = <<0>> /\ ret = <<13>>

\* C3 as stated: any two runs of the program have equal standard output
\* and equal exit status.
C3_AnyTwoRunsIdentical ==
    pc = "exited" /\ seen # <<>> =>
        seen[1].out = out /\ seen[1].status = exitStatus

\* C3 amended: any two runs have equal exit status, and equal standard
\* output whenever stdout accepts the same number of bytes in both; nothing
\* of an earlier run reaches a later one.
C3_RunsIdenticalOnSameStdout ==
    pc = "exited" /\ seen # <<>> =>
        /\ seen[1].status = exitStatus
        /\ seen[1].room0 = room0 => seen[1].out = out
        /\ Min(seen[1].room0, room0) >= 13 => seen[1].out = out

C3_Witness ==
    /\ pc = "exited" /\ seen # <<>>
    /\ seen[1].room0 = room0 /\ room0 > 0
    /\ seen[1].out = out /\ seen[1].status = exitStatus

\* C4: every run that enters main eventually reaches the exited state.
C4_Terminates ==
    (pc = "main") ~> (pc = "exited")

C4_Witness ==
    pc = "exited" /\ flushN = 0 /\ buf = <<>> /\ mainRet # <<>>

\* C5 as stated: no operation of main is fallible, so no operation ever
\* has an error outcome.
C5_NoFallibleOperation ==
    ~ferr /\ ret # <<-1>>

\* C5 amended: the write of the greeting is the one fallible operation; it
\* fails exactly in the runs whose stdout accepts fewer than 13 bytes, its
\* failure shows only in the error indicator of stdout and in the value
\* printf returns, and no run ends in a failure: every terminated run has
\* returned from main and exited with status 0.
C5_OnlyTheWriteFails ==
    /\ ferr => room0 < 13
    /\ ret = <<-1>> => ferr
    /\ pc = "exited" =>
          /\ ferr <=> room0 < 13
          /\ mainRet # <<>>
          /\ exitStatus = <<0>>

C5_Witness ==
    pc = "exited" /\ ferr /\ ~lbf /\ ret = <<13>> /\ exitStatus = <<0>>

\* C6, inputs: runs whose stdout accepts the same number of bytes have the
\* same output and exit status whatever their arguments, environment and
\* standard input.
C6_InputsIgnored ==
    pc = "exited" /\ seen # <<>> /\ seen[1].room0 = room0 /\
    <<seen[1].argv, seen[1].environ, seen[1].stdin>> # <<argv, environ, stdin>> =>
        seen[1].out = out /\ seen[1].status = exitStatus

\* C6, frame: no step of a run changes the arguments, the environment,
\* standard input or standard error.
C6_FrameStep ==
    pc # "exited" =>
        <<argv, environ, stdin, stderr>>' = <<argv, environ, stdin, stderr>>

\* C6: the run takes no inputs and has no effect beyond standard output and
\* the exit status.
C6_NoInputsNoSideEffects ==
    [](C6_InputsIgnored) /\ [][C6_FrameStep]_vars

C6_Witness ==
    /\ pc = "exited" /\ seen # <<>> /\ seen[1].room0 = room0
    /\ seen[1].argv # argv /\ room0 >= 13
    /\ seen[1].out = out /\ stdin = <<>> /\ stderr = <<>>

\* C7 as stated: in every run all 13 bytes of the greeting are on standard
\* output when the process becomes exited.
C7_AllBytesBeforeExitEveryRun ==
    [][pc # "exited" /\ pc' = "exited" => out = HelloWorldBytes]_vars

\* The step that ends the process: everything stdout accepted of the
\* greeting is already written, nothing is left buffered, the step writes
\* nothing and the status is 0.
C7_ExitStep ==
    pc # "exited" /\ pc' = "exited" =>
        /\ out = Accepted(room0)
        /\ buf = <<>>
        /\ out' = out
        /\ exitStatus = <<>> /\ exitStatus' = <<0>>

\* Bytes reach standard output only in a flush of a running process; a
\* step of an exited process starts a new one, on an empty stream.
C7_WriteStep ==
    out' # out =>
        \/ pc \in {"printf_flush", "exit_flush"} /\ pc' = pc
        \/ pc = "exited" /\ pc' = "main" /\ out' = <<>>

\* C7 amended: the greeting, as far as stdout accepts it (all 13 bytes in
\* every run whose stdout accepts 13), is on standard output before the
\* process is exited with status 0, and no byte is written after the exit.
C7_GreetingThenExit ==
    [][C7_ExitStep /\ C7_WriteStep]_vars

C7_Witness ==
    pc = "exited" /\ ~lbf /\ out = HelloWorldBytes /\ exitStatus = <<0>>

\* C8: the exit status does not depend on the result of the write: it is 0
\* when the write succeeded, when it failed and when it was short, and it
\* is the same as that of a run whose write ended otherwise.
C8_StatusIgnoresWriteResult ==
    pc = "exited" =>
        /\ ret = <<-1>> => exitStatus = <<0>>
        /\ ferr => exitStatus = <<0>>
        /\ ~ferr => exitStatus = <<0>>
        /\ seen # <<>> /\ seen[1].ferr # ferr => seen[1].status = exitStatus

C8_Witness ==
    /\ pc = "exited" /\ ret = <<-1>> /\ ferr
    /\ 0 < Len(out) /\ Len(out) < 13
    /\ exitStatus = <<0>>
    /\ seen # <<>> /\ ~seen[1].ferr /\ seen[1].status = exitStatus

====
